---- MODULE Spec2Model ----
(***************************************************************************)
(* The CI build-log fetcher of autoprat                                    *)
(* (src/bin/autoprat/log_fetcher.rs): LogFetcher::fetch_logs_for_prs, the  *)
(* bounded-parallelism pipeline LogFetcher::fetch_urls_concurrently, the   *)
(* per-task line processor, the line classifier and the URL resolver.      *)
(***************************************************************************)
EXTENDS Integers, Sequences, FiniteSets, TLC

----------------------------------------------------------------------------
(* Program constants.                                                       *)

\* processor: `line.len() > 500`
MAX_LINE_LEN == 500

\* processor: `state.line_count < 1000`
MAX_LINES == 1000

\* processor: `state.error_count >= 20`
MAX_ERRORS == 20

\* LogFetcher::new: `build_with_max_retries(3)`
MAX_RETRIES == 3

\* display_pr_table: `const DEFAULT_CONCURRENCY: usize = 20`
DEFAULT_CONCURRENCY == 20

\* processor: the truncation marker pushed when the error cap is hit
TRUNCATED == "... (truncated)"

----------------------------------------------------------------------------
(* Bounds of the model.                                                     *)

\* longest input list of pull-request records
MaxPRs == 2

\* most checks carried by one pull-request record
MaxChecks == 2

\* most checks carried by all records of one input together
MaxTotalChecks == 2

\* largest PR number (records of different repositories may share one)
MaxPRNumber == 2

\* largest concurrency limit handed to LogFetcher::new
MaxConcurrent == 2

----------------------------------------------------------------------------
(* Generic helpers.                                                         *)

None == "None"

\* Option<T> of a structured T
Nothing == [some |-> FALSE]

Some(x) == [some |-> TRUE, val |-> x]

Min(S) == CHOOSE x \in S : \A y \in S : x <= y

Range(s) == {s[i] : i \in 1..Len(s)}

\* n copies of x
Rep(x, n) == [i \in 1..n |-> x]

SeqsUpTo(S, n) == UNION {[1..k -> S] : k \in 0..n}

\* HashMap::insert: the value under key k is replaced
MapInsert(m, k, v) ==
    [x \in (DOMAIN m) \cup {k} |-> IF x = k THEN v ELSE m[x]]

EmptyMap == [x \in {} |-> 0]

----------------------------------------------------------------------------
(* Log lines.  A line is its text; LineTable records, for every line the   *)
(* model serves, what str::trim, str::len and the RegexSet of              *)
(* is_error_line_with_pattern compute on it (1-based pattern positions),   *)
(* and how many characters it has.                                         *)

Line500 == "error: xxxxxxxxxxxxxxxxxxxxxxxxxxxxxxxxxxxxxxxxxxxxxxxxxxxxxxxxxxxxxxxxxxxxxxxxxxxxxxxxxxxxxxxxxxxxxxxxxxxxxxxxxxxxxxxxxxxxxxxxxxxxxxxxxxxxxxxxxxxxxxxxxxxxxxxxxxxxxxxxxxxxxxxxxxxxxxxxxxxxxxxxxxxxxxxxxxxxxxxxxxxxxxxxxxxxxxxxxxxxxxxxxxxxxxxxxxxxxxxxxxxxxxxxxxxxxxxxxxxxxxxxxxxxxxxxxxxxxxxxxxxxxxxxxxxxxxxxxxxxxxxxxxxxxxxxxxxxxxxxxxxxxxxxxxxxxxxxxxxxxxxxxxxxxxxxxxxxxxxxxxxxxxxxxxxxxxxxxxxxxxxxxxxxxxxxxxxxxxxxxxxxxxxxxxxxxxxxxxxxxxxxxxxxxxxxxxxxxxxxxxxxxxxxxxxxxxxxxxxxxxxxxxxxxxxxxxxxxxxxxxxxxxxxxxxxx"

Line501 == "error: xxxxxxxxxxxxxxxxxxxxxxxxxxxxxxxxxxxxxxxxxxxxxxxxxxxxxxxxxxxxxxxxxxxxxxxxxxxxxxxxxxxxxxxxxxxxxxxxxxxxxxxxxxxxxxxxxxxxxxxxxxxxxxxxxxxxxxxxxxxxxxxxxxxxxxxxxxxxxxxxxxxxxxxxxxxxxxxxxxxxxxxxxxxxxxxxxxxxxxxxxxxxxxxxxxxxxxxxxxxxxxxxxxxxxxxxxxxxxxxxxxxxxxxxxxxxxxxxxxxxxxxxxxxxxxxxxxxxxxxxxxxxxxxxxxxxxxxxxxxxxxxxxxxxxxxxxxxxxxxxxxxxxxxxxxxxxxxxxxxxxxxxxxxxxxxxxxxxxxxxxxxxxxxxxxxxxxxxxxxxxxxxxxxxxxxxxxxxxxxxxxxxxxxxxxxxxxxxxxxxxxxxxxxxxxxxxxxxxxxxxxxxxxxxxxxxxxxxxxxxxxxxxxxxxxxxxxxxxxxxxxxxxxxxxxxxxx"

\* 500 characters in 501 bytes: the "é" takes two
Line500Wide == "error: éxxxxxxxxxxxxxxxxxxxxxxxxxxxxxxxxxxxxxxxxxxxxxxxxxxxxxxxxxxxxxxxxxxxxxxxxxxxxxxxxxxxxxxxxxxxxxxxxxxxxxxxxxxxxxxxxxxxxxxxxxxxxxxxxxxxxxxxxxxxxxxxxxxxxxxxxxxxxxxxxxxxxxxxxxxxxxxxxxxxxxxxxxxxxxxxxxxxxxxxxxxxxxxxxxxxxxxxxxxxxxxxxxxxxxxxxxxxxxxxxxxxxxxxxxxxxxxxxxxxxxxxxxxxxxxxxxxxxxxxxxxxxxxxxxxxxxxxxxxxxxxxxxxxxxxxxxxxxxxxxxxxxxxxxxxxxxxxxxxxxxxxxxxxxxxxxxxxxxxxxxxxxxxxxxxxxxxxxxxxxxxxxxxxxxxxxxxxxxxxxxxxxxxxxxxxxxxxxxxxxxxxxxxxxxxxxxxxxxxxxxxxxxxxxxxxxxxxxxxxxxxxxxxxxxxxxxxxxxxxxxxxxxxxxxxxx"

LineTable ==
    { [text |-> "INFO starting", trimmed |-> "INFO starting", len |-> 13, chars |-> 13, matches |-> {}],
      [text |-> "ERROR: build failed", trimmed |-> "ERROR: build failed", len |-> 19, chars |-> 19,
       matches |-> {1, 20}],
      [text |-> "INFO done", trimmed |-> "INFO done", len |-> 9, chars |-> 9, matches |-> {}],
      [text |-> "panic: boom", trimmed |-> "panic: boom", len |-> 11, chars |-> 11, matches |-> {5}],
      [text |-> "  level=error component=tide  ", trimmed |-> "level=error component=tide",
       len |-> 30, chars |-> 30, matches |-> {9, 28}],
      [text |-> "Process completed with exit code 1",
       trimmed |-> "Process completed with exit code 1", len |-> 34, chars |-> 34, matches |-> {8, 23}],
      [text |-> "", trimmed |-> "", len |-> 0, chars |-> 0, matches |-> {}],
      [text |-> "   ", trimmed |-> "", len |-> 3, chars |-> 3, matches |-> {}],
      [text |-> Line500, trimmed |-> Line500, len |-> 500, chars |-> 500, matches |-> {1}],
      [text |-> Line501, trimmed |-> Line501, len |-> 501, chars |-> 501, matches |-> {1}],
      [text |-> Line500Wide, trimmed |-> Line500Wide, len |-> 501, chars |-> 500,
       matches |-> {1}] }

LineInfo(line) == CHOOSE r \in LineTable : r.text = line

\* str::trim
Trim(line) == LineInfo(line).trimmed

\* str::len (bytes)
StrLen(line) == LineInfo(line).len

\* RegexSet::matches(line): the positions of the patterns that match
RegexSetMatches(line) == LineInfo(line).matches

PATTERN_NAMES ==
    << "error-keyword", "failed-keyword", "failure-keyword", "fatal-keyword",
       "panic-keyword", "error-prefix", "fail-prefix", "exit-code",
       "logrus-error", "zap-json-error", "java-spring-error", "structured-logger-error",
       "k8s-warning-events", "k8s-crashloop", "k8s-imagepull", "k8s-evicted",
       "github-actions-error", "make-error", "docker-daemon-error", "build-failed",
       "test-failed", "github-actions-annotation", "process-exit-code", "runner-error",
       "workflow-failed", "action-failed", "prow-component-error", "tide-component-error",
       "prow-general-error", "tide-general-error", "presubmit-failed", "postsubmit-failed",
       "periodic-failed", "prowjob-failed", "prow-hook-error", "prow-deck-error",
       "prow-spyglass-error", "prow-crier-error", "prow-sinker-error", "jenkins-error",
       "tekton-error", "gitlab-error", "circleci-error", "travis-error",
       "buildkite-error", "concourse-error", "go-error-field", "go-cannot-error",
       "exception-logs", "python-traceback", "stack-trace" >>

\* is_error_line_with_pattern, had it reported the matching pattern declared last
is_error_line_with_pattern_LastMatch(line) ==
    LET matches == RegexSetMatches(line)
        last == CHOOSE x \in matches : \A y \in matches : y <= x
    IN  IF matches # {} /\ last \in DOMAIN PATTERN_NAMES
        THEN PATTERN_NAMES[last]
        ELSE None

\* is_error_line_with_pattern: the name of the first matching pattern
is_error_line_with_pattern(line) ==
    LET matches == RegexSetMatches(line)
    IN  IF matches # {} /\ Min(matches) \in DOMAIN PATTERN_NAMES
        THEN PATTERN_NAMES[Min(matches)]
        ELSE None

----------------------------------------------------------------------------
(* The task state machine.                                                  *)

\* TaskState::new
TaskState_new(check_name) ==
    [ check_name      |-> check_name,
      error_lines     |-> << >>,
      error_count     |-> 0,
      line_count      |-> 0,
      pattern_matches |-> EmptyMap ]

\* processor, had it not returned false at the error cap
processor_NoStopAtCap(line, state) ==
    LET s1 == [state EXCEPT !.line_count = @ + 1]
        pattern_name == is_error_line_with_pattern(line)
        pm == s1.pattern_matches
        s2 == [s1 EXCEPT !.error_lines = Append(@, Trim(line)),
                         !.error_count = @ + 1,
                         !.pattern_matches =
                             MapInsert(pm, pattern_name,
                                       (IF pattern_name \in DOMAIN pm
                                        THEN pm[pattern_name] ELSE 0) + 1)]
        s3 == [s2 EXCEPT !.error_lines = Append(@, TRUNCATED)]
    IN  IF Trim(line) = "" \/ StrLen(line) > MAX_LINE_LEN
        THEN [cont |-> s1.line_count < MAX_LINES, state |-> s1]
        ELSE IF pattern_name # None
        THEN IF s2.error_count >= MAX_ERRORS
             THEN [cont |-> s3.line_count < MAX_LINES, state |-> s3]
             ELSE [cont |-> s2.line_count < MAX_LINES, state |-> s2]
        ELSE [cont |-> s1.line_count < MAX_LINES, state |-> s1]

\* processor, had it compared line_count with `<=`
processor_LineCapOffByOne(line, state) ==
    LET s1 == [state EXCEPT !.line_count = @ + 1]
        pattern_name == is_error_line_with_pattern(line)
        pm == s1.pattern_matches
        s2 == [s1 EXCEPT !.error_lines = Append(@, Trim(line)),
                         !.error_count = @ + 1,
                         !.pattern_matches =
                             MapInsert(pm, pattern_name,
                                       (IF pattern_name \in DOMAIN pm
                                        THEN pm[pattern_name] ELSE 0) + 1)]
    IN  IF Trim(line) = "" \/ StrLen(line) > MAX_LINE_LEN
        THEN [cont |-> s1.line_count <= MAX_LINES, state |-> s1]
        ELSE IF pattern_name # None
        THEN IF s2.error_count >= MAX_ERRORS
             THEN [cont |-> FALSE,
                   state |-> [s2 EXCEPT !.error_lines = Append(@, TRUNCATED)]]
             ELSE [cont |-> s2.line_count <= MAX_LINES, state |-> s2]
        ELSE [cont |-> s1.line_count <= MAX_LINES, state |-> s1]

\* processor, had it compared error_count with `>`
processor_ErrorCapOffByOne(line, state) ==
    LET s1 == [state EXCEPT !.line_count = @ + 1]
        pattern_name == is_error_line_with_pattern(line)
        pm == s1.pattern_matches
        s2 == [s1 EXCEPT !.error_lines = Append(@, Trim(line)),
                         !.error_count = @ + 1,
                         !.pattern_matches =
                             MapInsert(pm, pattern_name,
                                       (IF pattern_name \in DOMAIN pm
                                        THEN pm[pattern_name] ELSE 0) + 1)]
    IN  IF Trim(line) = "" \/ StrLen(line) > MAX_LINE_LEN
        THEN [cont |-> s1.line_count < MAX_LINES, state |-> s1]
        ELSE IF pattern_name # None
        THEN IF s2.error_count > MAX_ERRORS
             THEN [cont |-> FALSE,
                   state |-> [s2 EXCEPT !.error_lines = Append(@, TRUNCATED)]]
             ELSE [cont |-> s2.line_count < MAX_LINES, state |-> s2]
        ELSE [cont |-> s1.line_count < MAX_LINES, state |-> s1]

\* processor, had it left the pattern counts alone
processor_PatternNotCounted(line, state) ==
    LET s1 == [state EXCEPT !.line_count = @ + 1]
        pattern_name == is_error_line_with_pattern(line)
        s2 == [s1 EXCEPT !.error_lines = Append(@, Trim(line)),
                         !.error_count = @ + 1]
    IN  IF Trim(line) = "" \/ StrLen(line) > MAX_LINE_LEN
        THEN [cont |-> s1.line_count < MAX_LINES, state |-> s1]
        ELSE IF pattern_name # None
        THEN IF s2.error_count >= MAX_ERRORS
             THEN [cont |-> FALSE,
                   state |-> [s2 EXCEPT !.error_lines = Append(@, TRUNCATED)]]
             ELSE [cont |-> s2.line_count < MAX_LINES, state |-> s2]
        ELSE [cont |-> s1.line_count < MAX_LINES, state |-> s1]

\* processor, had it stopped with the marker one error line early
processor_MarkerBeforeCap(line, state) ==
    LET s1 == [state EXCEPT !.line_count = @ + 1]
        pattern_name == is_error_line_with_pattern(line)
        pm == s1.pattern_matches
        s2 == [s1 EXCEPT !.error_lines = Append(@, Trim(line)),
                         !.error_count = @ + 1,
                         !.pattern_matches =
                             MapInsert(pm, pattern_name,
                                       (IF pattern_name \in DOMAIN pm
                                        THEN pm[pattern_name] ELSE 0) + 1)]
    IN  IF Trim(line) = "" \/ StrLen(line) > MAX_LINE_LEN
        THEN [cont |-> s1.line_count < MAX_LINES, state |-> s1]
        ELSE IF pattern_name # None
        THEN IF s2.error_count >= MAX_ERRORS - 1
             THEN [cont |-> FALSE,
                   state |-> [s2 EXCEPT !.error_lines = Append(@, TRUNCATED)]]
             ELSE [cont |-> s2.line_count < MAX_LINES, state |-> s2]
        ELSE [cont |-> s1.line_count < MAX_LINES, state |-> s1]

\* the processor closure: [cont |-> the returned bool, state |-> the state after]
processor(line, state) ==
    LET s1 == [state EXCEPT !.line_count = @ + 1]
        pattern_name == is_error_line_with_pattern(line)
        pm == s1.pattern_matches
        s2 == [s1 EXCEPT !.error_lines = Append(@, Trim(line)),
                         !.error_count = @ + 1,
                         !.pattern_matches =
                             MapInsert(pm, pattern_name,
                                       (IF pattern_name \in DOMAIN pm
                                        THEN pm[pattern_name] ELSE 0) + 1)]
    IN  IF Trim(line) = "" \/ StrLen(line) > MAX_LINE_LEN
        THEN [cont |-> s1.line_count < MAX_LINES, state |-> s1]
        ELSE IF pattern_name # None
        THEN IF s2.error_count >= MAX_ERRORS
             THEN [cont |-> FALSE,
                   state |-> [s2 EXCEPT !.error_lines = Append(@, TRUNCATED)]]
             ELSE [cont |-> s2.line_count < MAX_LINES, state |-> s2]
        ELSE [cont |-> s1.line_count < MAX_LINES, state |-> s1]

\* the `while let Some(line) = lines_stream.next()` loop of
\* fetch_urls_concurrently on a body that is read without a failure:
\* the state handed to Ok(result)
RECURSIVE StreamLoop(_, _, _)
StreamLoop(body, pos, state) ==
    IF pos >= Len(body) THEN state
    ELSE LET r == processor(body[pos + 1], state)
         IN  IF r.cont THEN StreamLoop(body, pos + 1, r.state) ELSE r.state

----------------------------------------------------------------------------
(* URLs.  A parsed URL is its scheme, host, path segments and fragment;    *)
(* the path is "/" followed by the segments joined with "/".                *)

PROW_HOST == "prow.ci.openshift.org"

STORAGE_HOST == "storage.googleapis.com"

GITHUB_HOST == "github.com"

Url(scheme, host, segs, frag) ==
    [scheme |-> scheme, host |-> host, segs |-> segs, frag |-> frag]

\* the strings of the model's URLs in which "raw" occurs
RawStrings == {"raw", "rawlogs"}

\* the fragments of the model's URLs that begin "issuecomment"
IssueCommentFragments == {"issuecomment-1"}

\* url.path().contains("/a/b/")
PathContains(url, a, b) ==
    \E i \in 1..(Len(url.segs) - 2) : url.segs[i] = a /\ url.segs[i + 1] = b

\* url.as_str().contains("raw")
StrContainsRaw(url) ==
    \/ url.host \in RawStrings
    \/ url.frag \in RawStrings
    \/ \E i \in 1..Len(url.segs) : url.segs[i] \in RawStrings

\* url.as_str().contains("#issuecomment")
StrContainsIssueComment(url) == url.frag \in IssueCommentFragments

\* str::starts_with
StartsWith(s, prefix) == Len(s) >= Len(prefix) /\ SubSeq(s, 1, Len(prefix)) = prefix

\* url.path().replace("/view/gs", "") on the path "/" segs[1] "/" segs[2] ...:
\* every "/view/gs" is cut out, whatever follows the "gs".  The result is
\* <<g, s1, ..., sn>> for the string g "/" s1 ... "/" sn: g is the text left
\* in front of the first "/" (a segment that began with "gs", less the "gs")
RECURSIVE ReplaceViewGs(_)
ReplaceViewGs(segs) ==
    IF segs = << >> THEN <<"">>
    ELSE IF Len(segs) >= 2 /\ segs[1] = "view" /\ StartsWith(segs[2], "gs")
         THEN LET rest == ReplaceViewGs(SubSeq(segs, 3, Len(segs)))
              IN  <<SubSeq(segs[2], 3, Len(segs[2])) \o rest[1]>> \o Tail(rest)
         ELSE LET rest == ReplaceViewGs(Tail(segs))
              IN  <<"", segs[1] \o rest[1]>> \o Tail(rest)

\* Url::parse, the host of an authority without a port: what follows the
\* last "@" (the text in front of it is user information)
HostOf(authority) ==
    LET ats == {i \in 1..Len(authority) : SubSeq(authority, i, i) = "@"}
        last == CHOOSE i \in ats : \A j \in ats : j <= i
    IN  IF ats = {} THEN authority ELSE SubSeq(authority, last + 1, Len(authority))

\* Url::parse of format!("https://storage.googleapis.com{}/build-log.txt", path)
\* for the path that replaced == ReplaceViewGs(..) stands for: the authority
\* runs up to the first "/"
StorageUrl(scheme, replaced) ==
    Url(scheme, HostOf(STORAGE_HOST \o replaced[1]), Append(Tail(replaced), "build-log.txt"), "")

\* LogUrl::new on a string that parses as a URL: None unless http or https
LogUrl_new(url) ==
    IF url.scheme \in {"http", "https"} THEN Some(url) ELSE Nothing

\* ci_url_to_log_url, had it tested for a raw link before the GitHub Actions link
ci_url_to_log_url_RawFirst(url) ==
    IF url.host = PROW_HOST /\ PathContains(url, "view", "gs")
    THEN LogUrl_new(StorageUrl("https", ReplaceViewGs(url.segs)))
    ELSE IF StrContainsRaw(url) \/ url.host = STORAGE_HOST
    THEN LogUrl_new(url)
    ELSE Nothing

\* LogFetcher::ci_url_to_log_url
ci_url_to_log_url(url) ==
    IF url.host = PROW_HOST /\ PathContains(url, "view", "gs")
    THEN LogUrl_new(StorageUrl("https", ReplaceViewGs(url.segs)))
    ELSE IF url.host = GITHUB_HOST /\ PathContains(url, "actions", "runs")
    THEN Nothing
    ELSE IF StrContainsRaw(url) \/ url.host = STORAGE_HOST
    THEN LogUrl_new(url)
    ELSE IF StrContainsIssueComment(url)
    THEN Nothing
    ELSE Nothing

----------------------------------------------------------------------------
(* Checks and pull-request records.                                         *)

\* CheckInfo::is_failed
is_failed(check) ==
    \/ check.conclusion \in {"Failure", "Cancelled", "TimedOut"}
    \/ check.status_state \in {"Failure", "Error"}

CheckInfo(name, conclusion, status_state, url) ==
    [name |-> name, conclusion |-> conclusion, status_state |-> status_state, url |-> url]

UrlProw == Url("https", PROW_HOST, <<"view", "gs", "bucket", "job", "123">>, "")

UrlStorage == Url("https", STORAGE_HOST, <<"bucket", "job", "456", "build-log.txt">>, "")

UrlRaw == Url("http", "ci.example.org", <<"raw", "789">>, "")

UrlActions == Url("https", GITHUB_HOST, <<"org", "a", "actions", "runs", "7">>, "")

\* links to a pull-request comment: on a repository, on a repository whose
\* name has "raw" in it, on the Prow host and on the storage host
UrlComment == Url("https", GITHUB_HOST, <<"org", "a", "pull", "7">>, "issuecomment-1")

UrlCommentRaw == Url("https", GITHUB_HOST, <<"org", "rawlogs", "pull", "7">>, "issuecomment-1")

UrlCommentProw ==
    Url("https", PROW_HOST, <<"view", "gs", "bucket", "job", "123">>, "issuecomment-1")

UrlCommentStorage ==
    Url("https", STORAGE_HOST, <<"bucket", "job", "456">>, "issuecomment-1")

\* failing checks whose URL contains "#issuecomment"
CommentChecks ==
    { CheckInfo("review", "Failure", None, Some(UrlComment)),
      CheckInfo("review", "Failure", None, Some(UrlCommentRaw)),
      CheckInfo("review", None, "Failure", Some(UrlCommentProw)),
      CheckInfo("review", None, "Error", Some(UrlCommentStorage)) }

\* Prow view links: over http, on another Prow host, and with "/view/gs"
\* a second time inside the bucket path
UrlProwHttp == Url("http", PROW_HOST, <<"view", "gs", "bucket", "job", "123">>, "")

UrlProwExample == Url("https", "prow.ci.example", <<"view", "gs", "bucket", "job", "123">>, "")

UrlProwNested ==
    Url("https", PROW_HOST, <<"view", "gs", "bucket", "view", "gs", "123">>, "")

\* failing checks with Prow view links
ProwChecks ==
    { CheckInfo("e2e", "Failure", None, Some(UrlProw)),
      CheckInfo("e2e", "Failure", None, Some(UrlProwHttp)),
      CheckInfo("e2e", None, "Failure", Some(UrlProwExample)),
      CheckInfo("e2e", "TimedOut", None, Some(UrlProwNested)) }

\* links that meet the condition of more than one branch of
\* ci_url_to_log_url, and one that meets none
UrlActionsRaw == Url("https", GITHUB_HOST, <<"org", "rawlogs", "actions", "runs", "7">>, "")

UrlProwRaw == Url("https", PROW_HOST, <<"view", "gs", "bucket", "raw", "123">>, "")

UrlUnknown == Url("https", "ci.example.org", <<"job", "1">>, "")

\* failing checks with these links
RuleChecks ==
    { CheckInfo("unit", "Failure", None, Some(UrlActionsRaw)),
      CheckInfo("unit", "Failure", None, Some(UrlActions)),
      CheckInfo("unit", "Failure", None, Some(UrlProwRaw)),
      CheckInfo("unit", None, "Failure", Some(UrlUnknown)) }

\* links given with a scheme other than http and https, and view links on
\* the Prow host whose first "/view/gs" is followed by more text of the
\* same segment
UrlRawFtp == Url("ftp", "ci.example.org", <<"raw", "789">>, "")

UrlStorageFtp == Url("ftp", STORAGE_HOST, <<"bucket", "job", "456", "build-log.txt">>, "")

UrlProwFtp == Url("ftp", PROW_HOST, <<"view", "gs", "bucket", "job", "123">>, "")

UrlProwGlued == Url("https", PROW_HOST, <<"view", "gs.evil.example", "view", "gs", "x">>, "")

UrlProwUser == Url("https", PROW_HOST, <<"view", "gs@evil.example", "view", "gs", "x">>, "")

\* failing checks with these links
SchemeChecks ==
    { CheckInfo("scan", "Failure", None, Some(UrlRawFtp)),
      CheckInfo("scan", "Failure", None, Some(UrlStorageFtp)),
      CheckInfo("scan", None, "Error", Some(UrlProwFtp)),
      CheckInfo("scan", "Failure", None, Some(UrlProwGlued)),
      CheckInfo("scan", "Failure", None, Some(UrlProwUser)) }

\* the checks the input records are built from
Checks ==
    { CheckInfo("build", "Failure", None, Some(UrlProw)),
      CheckInfo("build", None, "Error", Some(UrlStorage)),
      CheckInfo("test", "TimedOut", None, Some(UrlRaw)),
      CheckInfo("lint", "Failure", None, Some(UrlActions)),
      CheckInfo("docs", "Success", None, Some(UrlProw)),
      CheckInfo("deploy", "Cancelled", None, Nothing) }

RepoNames == <<"org/a", "org/b", "org/c", "org/d">>

PullRequest(repo, number, checks) ==
    [repo |-> repo, number |-> number, checks |-> checks]

\* PrResult with nothing fetched
PrResult_new(pr) == [pr |-> pr, logs |-> EmptyMap, fetch_errors |-> << >>]

\* fetch_logs_for_prs: the HashMap<u64, PrResult> collected from the input,
\* a later record replacing an earlier one of the same number
RECURSIVE InitPrResults(_)
InitPrResults(prs) ==
    IF prs = << >> THEN EmptyMap
    ELSE LET front == SubSeq(prs, 1, Len(prs) - 1)
             last  == prs[Len(prs)]
         IN  MapInsert(InitPrResults(front), last.number, PrResult_new(last))

\* collect_failing_check_urls, inner loop: the tasks of one record
RECURSIVE CheckTasks(_, _)
CheckTasks(pr, i) ==
    IF i > Len(pr.checks) THEN << >>
    ELSE LET check == pr.checks[i]
             log_url == IF check.url.some THEN ci_url_to_log_url(check.url.val) ELSE Nothing
             rest == CheckTasks(pr, i + 1)
         IN  IF is_failed(check) /\ check.url.some /\ log_url.some
             THEN << [pr_number |-> pr.number, check_name |-> check.name,
                      check_url |-> check.url.val, log_url |-> log_url.val] >> \o rest
             ELSE rest

\* collect_failing_check_urls: pr_results.values() visited in the order
\* `order` (a HashMap iterates in an unspecified order)
RECURSIVE collect_failing_check_urls(_, _)
collect_failing_check_urls(pr_results, order) ==
    IF order = << >> THEN << >>
    ELSE CheckTasks(pr_results[Head(order)].pr, 1)
         \o collect_failing_check_urls(pr_results, Tail(order))

\* the orders in which a HashMap with key set S may be iterated
Orders(S) ==
    {o \in [1..Cardinality(S) -> S] : \A i, j \in DOMAIN o : i # j => o[i] # o[j]}

\* fetch_logs_for_prs, the final expression:
\* prs.iter().filter_map(|pr| pr_results.remove(&pr.number)).collect()
RECURSIVE Reassemble(_, _)
Reassemble(prs, pr_results) ==
    IF prs = << >> THEN << >>
    ELSE LET n == Head(prs).number
         IN  IF n \in DOMAIN pr_results
             THEN <<pr_results[n]>>
                  \o Reassemble(Tail(prs), [k \in (DOMAIN pr_results) \ {n} |-> pr_results[k]])
             ELSE Reassemble(Tail(prs), pr_results)

----------------------------------------------------------------------------
(* Log bodies.  A response body is one of Bodies, named by its position.    *)

BodyExample == <<"INFO starting", "ERROR: build failed", "INFO done">>

BodyPanic == <<"panic: boom">>

BodyClean == <<"INFO done">>

BodyMixed ==
    <<Line500, Line501, "", "  level=error component=tide  ",
      "Process completed with exit code 1">>

\* more matching lines than the error cap, exactly as many, one fewer
BodyOverErrors == Rep("panic: boom", MAX_ERRORS + 5)

BodyExactErrors == Rep("panic: boom", MAX_ERRORS)

BodyUnderErrors == Rep("panic: boom", MAX_ERRORS - 1)

\* more lines than the line cap, none matching
BodyOverLines == Rep("INFO done", MAX_LINES + 1)

\* the line cap reached on a line that is skipped
BodySkippedAtCap == Rep("   ", MAX_LINES - 1) \o <<Line501, "INFO done">>

\* the line cap reached on the first matching line
BodyErrorAtCap == Rep("INFO done", MAX_LINES - 1) \o Rep("panic: boom", MAX_ERRORS + 1)

\* the error cap and the line cap reached on the same line
BodyBothCaps ==
    Rep("INFO done", MAX_LINES - MAX_ERRORS) \o Rep("panic: boom", MAX_ERRORS + 1)

\* a matching line of 500 characters that takes 501 bytes, then one of 500 bytes
BodyWide == <<Line500Wide, Line500>>

Bodies ==
    << BodyExample, BodyPanic, BodyClean, BodyMixed, << >>,
       BodyOverErrors, BodyExactErrors, BodyUnderErrors,
       BodyOverLines, BodySkippedAtCap, BodyErrorAtCap, BodyBothCaps, BodyWide >>

BodyId(body) == CHOOSE b \in DOMAIN Bodies : Bodies[b] = body

ShortBodies == {BodyId(BodyExample), BodyId(BodyPanic), BodyId(BodyClean)}

LongBodies == (DOMAIN Bodies) \ {BodyId(BodyPanic), BodyId(BodyClean)}

----------------------------------------------------------------------------
(* The state of one call of LogFetcher::fetch_logs_for_prs.                 *)

VARIABLES
    prs,             \* the input slice of pull-request records
    max_concurrent,  \* LogFetcher.max_concurrent
    served,          \* the log bodies (positions in Bodies) the servers may answer with
    pc,              \* where the call stands: "called", "fetching", "returned"
    pr_results,      \* HashMap<u64, PrResult>
    tasks,           \* the task list handed to fetch_urls_concurrently
    run,             \* per task: the position of its future
    stream_results,  \* the Vec<StreamResult> collected so far, in completion order
    routed,          \* how many stream results the routing loop has consumed
    ret              \* the returned Vec<PrResult>

vars == <<prs, max_concurrent, served, pc, pr_results, tasks, run, stream_results,
          routed, ret>>

\* what the retry middleware holds of the attempt before the current one:
\* nothing yet, or the transient failure it is retrying
NoAttempt == [kind |-> "none", code |-> 0]

\* a future that stream::iter has not handed out yet
Queued ==
    [phase |-> "queued", requests |-> 0, last |-> NoAttempt, body |-> 0, pos |-> 0,
     state |-> Nothing, dropped |-> << >>]

\* the lines of the body task i is reading
BodyOf(i) == IF run[i].body = 0 THEN << >> ELSE Bodies[run[i].body]

\* the futures buffer_unordered holds: created and not yet resolved
InFlight == {i \in DOMAIN run : run[i].phase \in {"sending", "streaming"}}

QueuedTasks == {i \in DOMAIN run : run[i].phase = "queued"}

AllDone == \A i \in DOMAIN run : run[i].phase = "done"

\* Result<T>
Ok(state) == [ok |-> TRUE, state |-> state]

Err(kind, code) == [ok |-> FALSE, error |-> [kind |-> kind, code |-> code]]

\* the StreamResult a task's future resolves to
StreamResult(task, result) ==
    [pr_number |-> task.pr_number, check_name |-> task.check_name,
     check_url |-> task.check_url, log_url |-> task.log_url, result |-> result]

\* the status codes the servers may answer with besides success
StatusCodes == {404, 500}

\* RetryTransientMiddleware's default strategy: a server error, a request
\* timeout or too-many-requests status is transient
TransientStatus(code) == code \in 500..599 \/ code \in {408, 429}

----------------------------------------------------------------------------
(* Inputs.                                                                  *)

\* the lists of up to n checks, none listed twice
CheckLists(n) ==
    {cs \in SeqsUpTo(Checks, n) : \A i, j \in DOMAIN cs : i # j => cs[i] # cs[j]}

PRChoices(i) ==
    {PullRequest(RepoNames[i], n, cs) : n \in 1..MaxPRNumber, cs \in CheckLists(MaxChecks)}

\* the input lists whose records i, i + 1, ... carry at most `budget` checks
RECURSIVE ListsFrom(_, _)
ListsFrom(i, budget) ==
    IF i > MaxPRs THEN {<< >>}
    ELSE {<< >>}
         \cup UNION { {<<pr>> \o rest : rest \in ListsFrom(i + 1, budget - Len(pr.checks))} :
                         pr \in {q \in PRChoices(i) : Len(q.checks) <= budget} }

\* the checks of Checks that become tasks
TaskChecks ==
    {c \in Checks : is_failed(c) /\ c.url.some /\ ci_url_to_log_url(c.url.val).some}

\* one record that carries MaxTotalChecks + 1 checks
BatchLists ==
    {<<PullRequest(RepoNames[1], 1, cs)>> :
         cs \in {l \in CheckLists(MaxTotalChecks + 1) : Len(l) = MaxTotalChecks + 1}}

\* one record with one check: the failing "test" or the unresolvable "lint"
SingleLists ==
    {<<PullRequest(RepoNames[1], 1, <<c>>)>> : c \in {d \in Checks : d.name \in {"test", "lint"}}}

\* the decimal digits, "0" first
Digits == <<"0", "1", "2", "3", "4", "5", "6", "7", "8", "9">>

\* the value of a string of decimal digits
RECURSIVE DigitsValue(_, _)
DigitsValue(s, acc) ==
    IF s = "" THEN acc
    ELSE LET d == CHOOSE k \in DOMAIN Digits : Digits[k] = SubSeq(s, 1, 1)
         IN  DigitsValue(SubSeq(s, 2, Len(s)), acc * 10 + (d - 1))

\* str::parse::<usize>: an optional "+" and then one or more decimal digits,
\* nothing else (no sign "-", no blanks); for strings short enough not to
\* overflow a usize
ParseUsize(s) ==
    LET body == IF StartsWith(s, "+") THEN SubSeq(s, 2, Len(s)) ELSE s
    IN  IF body = "" \/ \E i \in 1..Len(body) : SubSeq(body, i, i) \notin Range(Digits)
        THEN Nothing
        ELSE Some(DigitsValue(body, 0))

\* the values of AUTOPRAT_MAX_CONCURRENT_HTTP_STREAMS the model sets: the
\* variable absent, and present with a text
Settings ==
    {Nothing} \cup {Some(text) : text \in {"", "many", "-1", "1.5", " 2", "0", "00", "+0",
                                           "1", "2", "+2", "02", "20"}}

\* display_pr_table: env::var(..).ok().and_then(|s| s.parse().ok())
\*                       .unwrap_or(DEFAULT_CONCURRENCY)
ConfiguredConcurrency(setting) ==
    IF setting.some /\ ParseUsize(setting.val).some
    THEN ParseUsize(setting.val).val
    ELSE DEFAULT_CONCURRENCY

InitCall(lists, limits, bodies) ==
    /\ prs \in lists
    /\ max_concurrent \in limits
    /\ served = bodies
    /\ pc = "called"
    /\ pr_results = EmptyMap
    /\ tasks = << >>
    /\ run = << >>
    /\ stream_results = << >>
    /\ routed = 0
    /\ ret = << >>

\* every input list within the bounds (up to MaxPRs records of up to MaxChecks
\* checks, MaxTotalChecks in all), every limit, short bodies
Init == InitCall(ListsFrom(1, MaxTotalChecks), 1..MaxConcurrent, ShortBodies)

\* a batch of tasks larger than any input of Init, under every limit
InitBatch == InitCall(BatchLists, 1..MaxConcurrent, ShortBodies)

\* one check, long bodies
InitStream == InitCall(SingleLists, {1}, LongBodies)

\* one record with up to MaxTotalChecks checks, every limit, short bodies
FairLists ==
    {<<PullRequest(RepoNames[1], 1, cs)>> :
         cs \in {l \in CheckLists(MaxTotalChecks) :
                     \A k \in DOMAIN l : l[k].name \in {"build", "test", "lint"}}}

\* one record with one failing check: a comment link, a Prow view link, a
\* link that sets the branches of the resolver against each other, or a
\* link that tries the validation of the log URL
UrlLists ==
    {<<PullRequest(RepoNames[1], 1, <<c>>)>> :
         c \in CommentChecks \cup ProwChecks \cup RuleChecks \cup SchemeChecks}

InitUrls == InitCall(UrlLists, {1}, ShortBodies)

InitFair == InitCall(FairLists, 1..MaxConcurrent, ShortBodies)

\* the call display_pr_table makes: one record with up to MaxTotalChecks
\* checks, the limit configured by the environment, short bodies
InitConfig ==
    InitCall(FairLists, {ConfiguredConcurrency(setting) : setting \in Settings}, ShortBodies)

----------------------------------------------------------------------------
(* fetch_logs_for_prs up to the first await.                                *)

\* no failing check resolves to a log URL: the call returns at once
BeginEmpty ==
    /\ pc = "called"
    /\ LET results == InitPrResults(prs)
       IN  /\ \A order \in Orders(DOMAIN results) :
                  collect_failing_check_urls(results, order) = << >>
           /\ pr_results' = results
           /\ ret' = Reassemble(prs, results)
    /\ pc' = "returned"
    /\ UNCHANGED <<prs, max_concurrent, served, tasks, run, stream_results, routed>>

\* the task list is built and handed to fetch_urls_concurrently
BeginFetch ==
    /\ pc = "called"
    /\ LET results == InitPrResults(prs)
       IN  \E order \in Orders(DOMAIN results) :
               LET urls_to_fetch == collect_failing_check_urls(results, order)
               IN  /\ urls_to_fetch # << >>
                   /\ pr_results' = results
                   /\ tasks' = urls_to_fetch
                   /\ run' = [i \in DOMAIN urls_to_fetch |-> Queued]
    /\ pc' = "fetching"
    /\ UNCHANGED <<prs, max_concurrent, served, stream_results, routed, ret>>

----------------------------------------------------------------------------
(* fetch_urls_concurrently: the futures under buffer_unordered.             *)

\* a future that has resolved and been dropped; of one that resolved to Ok
\* the body, the lines read and the TaskState it handed over stay on record
Done(body, pos, state) ==
    [phase |-> "done", requests |-> 0, last |-> NoAttempt, body |-> body, pos |-> pos,
     state |-> state, dropped |-> << >>]

\* the error lines a future holds in its TaskState when it resolves to Err:
\* they are dropped with the TaskState
DroppedLines(i) ==
    IF run[i].phase = "streaming" THEN run[i].state.error_lines ELSE << >>

\* Resolve, had the pipeline kept only the futures that resolved to Ok
Resolve_ErrDropped(i, result, pos) ==
    /\ run' = [run EXCEPT ![i] = IF result.ok THEN Done(run[i].body, pos, result.state)
                                 ELSE [Done(0, 0, Nothing) EXCEPT !.dropped = DroppedLines(i)]]
    /\ stream_results' = IF result.ok
                         THEN Append(stream_results, StreamResult(tasks[i], result))
                         ELSE stream_results

\* Resolve, had an Err outcome kept the TaskState the future held
Resolve_ErrKeepsState(i, result, pos) ==
    /\ run' = [run EXCEPT ![i] = IF result.ok THEN Done(run[i].body, pos, result.state)
                                 ELSE [Done(0, 0, Nothing) EXCEPT !.dropped = DroppedLines(i)]]
    /\ stream_results' =
           Append(stream_results,
                  StreamResult(tasks[i],
                               IF result.ok THEN result
                               ELSE [ok |-> FALSE, error |-> result.error,
                                     state |-> run[i].state]))

\* the future of task i resolves: its StreamResult is collected
Resolve(i, result, pos) ==
    /\ run' = [run EXCEPT ![i] = IF result.ok THEN Done(run[i].body, pos, result.state)
                                 ELSE [Done(0, 0, Nothing) EXCEPT !.dropped = DroppedLines(i)]]
    /\ stream_results' = Append(stream_results, StreamResult(tasks[i], result))

\* StartTask, had a failed task kept its place in the buffer
StartTask_FailedKeepsSlot ==
    /\ pc = "fetching"
    /\ QueuedTasks # {}
    /\ Cardinality(InFlight) + Cardinality({i \in DOMAIN run : run[i].phase = "done"
                                                               /\ run[i].state = Nothing})
           < max_concurrent
    /\ LET i == Min(QueuedTasks)
       IN  run' = [run EXCEPT ![i] = [@ EXCEPT !.phase = "sending", !.requests = 1]]
    /\ UNCHANGED <<prs, max_concurrent, served, pc, pr_results, tasks, stream_results,
                   routed, ret>>

\* StartTask, had the buffer taken any queued task rather than the next one
StartTask_AnyQueued ==
    /\ pc = "fetching"
    /\ QueuedTasks # {}
    /\ Cardinality(InFlight) < max_concurrent
    /\ \E i \in QueuedTasks :
           run' = [run EXCEPT ![i] = [@ EXCEPT !.phase = "sending", !.requests = 1]]
    /\ UNCHANGED <<prs, max_concurrent, served, pc, pr_results, tasks, stream_results,
                   routed, ret>>

\* StartTask, had the stream been buffered without a limit
StartTask_NoCeiling ==
    /\ pc = "fetching"
    /\ QueuedTasks # {}
    /\ LET i == Min(QueuedTasks)
       IN  run' = [run EXCEPT ![i] = [@ EXCEPT !.phase = "sending", !.requests = 1]]
    /\ UNCHANGED <<prs, max_concurrent, served, pc, pr_results, tasks, stream_results,
                   routed, ret>>

\* buffer_unordered takes the next task off the iterator and its future
\* sends the first request
StartTask ==
    /\ pc = "fetching"
    /\ QueuedTasks # {}
    /\ Cardinality(InFlight) < max_concurrent
    /\ LET i == Min(QueuedTasks)
       IN  run' = [run EXCEPT ![i] = [@ EXCEPT !.phase = "sending", !.requests = 1]]
    /\ UNCHANGED <<prs, max_concurrent, served, pc, pr_results, tasks, stream_results,
                   routed, ret>>

\* send() yields a success response: the TaskState is constructed
RespondSuccess(i) ==
    /\ pc = "fetching"
    /\ run[i].phase = "sending"
    /\ \E body \in served :
           run' = [run EXCEPT ![i] = [@ EXCEPT !.phase = "streaming", !.last = NoAttempt,
                                               !.body = body, !.pos = 0,
                                               !.state = TaskState_new(tasks[i].check_name)]]
    /\ UNCHANGED <<prs, max_concurrent, served, pc, pr_results, tasks, stream_results,
                   routed, ret>>

\* RespondStatus, had no status been classed as transient
RespondStatus_NoRetry(i) ==
    /\ pc = "fetching"
    /\ run[i].phase = "sending"
    /\ \E code \in StatusCodes : Resolve(i, Err("status", code), 0)
    /\ UNCHANGED <<prs, max_concurrent, served, pc, pr_results, tasks, routed, ret>>

\* the server answers with a non-success status: the retry middleware
\* repeats the request while the status is transient and retries remain,
\* else the response reaches the status test
RespondStatus(i) ==
    /\ pc = "fetching"
    /\ run[i].phase = "sending"
    /\ \E code \in StatusCodes :
           IF TransientStatus(code) /\ run[i].requests <= MAX_RETRIES
           THEN /\ run' = [run EXCEPT ![i] = [@ EXCEPT !.requests = @ + 1,
                                                       !.last = Err("status", code).error]]
                /\ UNCHANGED stream_results
           ELSE Resolve(i, Err("status", code), 0)
    /\ UNCHANGED <<prs, max_concurrent, served, pc, pr_results, tasks, routed, ret>>

\* RespondTransportError, had the policy allowed one more retry
RespondTransportError_ExtraRetry(i) ==
    /\ pc = "fetching"
    /\ run[i].phase = "sending"
    /\ \E transient \in BOOLEAN :
           IF transient /\ run[i].requests <= MAX_RETRIES + 1
           THEN /\ run' = [run EXCEPT ![i] = [@ EXCEPT !.requests = @ + 1,
                                                       !.last = Err("request", 0).error]]
                /\ UNCHANGED stream_results
           ELSE Resolve(i, Err("request", 0), 0)
    /\ UNCHANGED <<prs, max_concurrent, served, pc, pr_results, tasks, routed, ret>>

\* the request fails in transport: retried while transient and retries
\* remain, else send() yields the error
RespondTransportError(i) ==
    /\ pc = "fetching"
    /\ run[i].phase = "sending"
    /\ \E transient \in BOOLEAN :
           IF transient /\ run[i].requests <= MAX_RETRIES
           THEN /\ run' = [run EXCEPT ![i] = [@ EXCEPT !.requests = @ + 1,
                                                       !.last = Err("request", 0).error]]
                /\ UNCHANGED stream_results
           ELSE Resolve(i, Err("request", 0), 0)
    /\ UNCHANGED <<prs, max_concurrent, served, pc, pr_results, tasks, routed, ret>>

\* ReadLine, had the tasks that are streaming shared one TaskState, that of
\* the first of them
ReadLine_SharedState(i) ==
    /\ pc = "fetching"
    /\ run[i].phase = "streaming"
    /\ run[i].pos < Len(BodyOf(i))
    /\ LET first == Min({j \in DOMAIN run : run[j].phase = "streaming"})
           r == processor(BodyOf(i)[run[i].pos + 1], run[first].state)
       IN  IF r.cont
           THEN /\ run' = [run EXCEPT ![i] = [@ EXCEPT !.pos = @ + 1, !.state = r.state]]
                /\ UNCHANGED stream_results
           ELSE Resolve(i, Ok(r.state), run[i].pos + 1)
    /\ UNCHANGED <<prs, max_concurrent, served, pc, pr_results, tasks, routed, ret>>

\* lines_stream.next() yields a line: the processor consumes it, and the
\* loop breaks when it returns false
ReadLine(i) ==
    /\ pc = "fetching"
    /\ run[i].phase = "streaming"
    /\ run[i].pos < Len(BodyOf(i))
    /\ LET r == processor(BodyOf(i)[run[i].pos + 1], run[i].state)
       IN  IF r.cont
           THEN /\ run' = [run EXCEPT ![i] = [@ EXCEPT !.pos = @ + 1, !.state = r.state]]
                /\ UNCHANGED stream_results
           ELSE Resolve(i, Ok(r.state), run[i].pos + 1)
    /\ UNCHANGED <<prs, max_concurrent, served, pc, pr_results, tasks, routed, ret>>

\* lines_stream.next() yields None: the body has ended
EndOfStream(i) ==
    /\ pc = "fetching"
    /\ run[i].phase = "streaming"
    /\ run[i].pos = Len(BodyOf(i))
    /\ Resolve(i, Ok(run[i].state), run[i].pos)
    /\ UNCHANGED <<prs, max_concurrent, served, pc, pr_results, tasks, routed, ret>>

\* ReadError, had a failed read been retried as a new request
ReadError_Retried(i) ==
    /\ pc = "fetching"
    /\ run[i].phase = "streaming"
    /\ IF run[i].requests <= MAX_RETRIES
       THEN /\ run' = [run EXCEPT ![i] = [@ EXCEPT !.phase = "sending", !.requests = @ + 1,
                                                   !.last = Err("read", 0).error,
                                                   !.body = 0, !.pos = 0,
                                                   !.state = Nothing]]
            /\ UNCHANGED stream_results
       ELSE Resolve(i, Err("read", 0), 0)
    /\ UNCHANGED <<prs, max_concurrent, served, pc, pr_results, tasks, routed, ret>>

\* lines_stream.next() yields an error: `?` drops the TaskState
ReadError(i) ==
    /\ pc = "fetching"
    /\ run[i].phase = "streaming"
    /\ Resolve(i, Err("read", 0), 0)
    /\ UNCHANGED <<prs, max_concurrent, served, pc, pr_results, tasks, routed, ret>>

----------------------------------------------------------------------------
(* fetch_logs_for_prs after the await.                                      *)

\* RouteInto, had every outcome been filed under the lowest PR number of the map
RouteInto_FirstRecord(results, stream_result) ==
    LET n == Min(DOMAIN results)
        pr_result == results[n]
        result == stream_result.result
    IN  IF result.ok
        THEN IF result.state.error_lines # << >>
             THEN [results EXCEPT ![n].logs =
                       MapInsert(pr_result.logs, result.state.check_name,
                                 result.state.error_lines)]
             ELSE results
        ELSE [results EXCEPT ![n].fetch_errors =
                  Append(pr_result.fetch_errors,
                         [pr_number |-> stream_result.pr_number,
                          check_name |-> stream_result.check_name,
                          check_url |-> stream_result.check_url,
                          log_url |-> stream_result.log_url,
                          error |-> result.error])]

\* one iteration of `for stream_result in stream_results`
RouteInto(results, stream_result) ==
    IF stream_result.pr_number \in DOMAIN results
    THEN LET pr_result == results[stream_result.pr_number]
             result == stream_result.result
         IN  IF result.ok
             THEN IF result.state.error_lines # << >>
                  THEN [results EXCEPT ![stream_result.pr_number].logs =
                            MapInsert(pr_result.logs, result.state.check_name,
                                      result.state.error_lines)]
                  ELSE results
             ELSE [results EXCEPT ![stream_result.pr_number].fetch_errors =
                       Append(pr_result.fetch_errors,
                              [pr_number |-> stream_result.pr_number,
                               check_name |-> stream_result.check_name,
                               check_url |-> stream_result.check_url,
                               log_url |-> stream_result.log_url,
                               error |-> result.error])]
    ELSE results

\* the whole loop `for stream_result in stream_results`
RECURSIVE RouteAll(_, _)
RouteAll(results, results_in_order) ==
    IF results_in_order = << >> THEN results
    ELSE RouteAll(RouteInto(results, Head(results_in_order)), Tail(results_in_order))

Route ==
    /\ pc = "fetching"
    /\ AllDone
    /\ routed < Len(stream_results)
    /\ pr_results' = RouteInto(pr_results, stream_results[routed + 1])
    /\ routed' = routed + 1
    /\ UNCHANGED <<prs, max_concurrent, served, pc, tasks, run, stream_results, ret>>

\* the results are put back in the order of the input
Return ==
    /\ pc = "fetching"
    /\ AllDone
    /\ routed = Len(stream_results)
    /\ ret' = Reassemble(prs, pr_results)
    /\ pc' = "returned"
    /\ UNCHANGED <<prs, max_concurrent, served, pr_results, tasks, run, stream_results,
                   routed>>

Next ==
    \/ BeginEmpty
    \/ BeginFetch
    \/ StartTask
    \/ \E i \in DOMAIN run : RespondSuccess(i)
    \/ \E i \in DOMAIN run : RespondStatus(i)
    \/ \E i \in DOMAIN run : RespondTransportError(i)
    \/ \E i \in DOMAIN run : ReadLine(i)
    \/ \E i \in DOMAIN run : EndOfStream(i)
    \/ \E i \in DOMAIN run : ReadError(i)
    \/ Route
    \/ Return

Spec == Init /\ [][Next]_vars

SpecBatch == InitBatch /\ [][Next]_vars

SpecStream == InitStream /\ [][Next]_vars

SpecUrls == InitUrls /\ [][Next]_vars

SpecConfig == InitConfig /\ [][Next]_vars

\* the executor polls every future that can make progress; every HTTP attempt
\* ends (response, transport error or timeout) and every read of the body
\* ends (line, end of stream or error)
Fairness ==
    /\ WF_vars(BeginEmpty \/ BeginFetch)
    /\ WF_vars(StartTask)
    /\ \A i \in 1..MaxTotalChecks :
           /\ WF_vars(i \in DOMAIN run
                        /\ (RespondSuccess(i) \/ RespondStatus(i) \/ RespondTransportError(i)))
           /\ WF_vars(i \in DOMAIN run /\ (ReadLine(i) \/ EndOfStream(i) \/ ReadError(i)))
    /\ WF_vars(Route)
    /\ WF_vars(Return)

SpecFair == InitFair /\ [][Next]_vars /\ Fairness

----------------------------------------------------------------------------
(* Properties.                                                              *)

\* the tasks whose future resolved to Ok, and those whose future resolved to Err
Succeeded == {i \in DOMAIN run : run[i].phase = "done" /\ run[i].state # Nothing}

Failed == {i \in DOMAIN run : run[i].phase = "done" /\ run[i].state = Nothing}

\* the TaskStates that exist: those being filled and those handed over
LiveStates ==
    {run[i].state : i \in {j \in DOMAIN run : run[j].state # Nothing}}
    \cup {stream_results[k].result.state :
              k \in {j \in DOMAIN stream_results : stream_results[j].result.ok}}

\* what identifies a task, and the StreamResult and FetchError made from it
Identity(x) ==
    [pr_number |-> x.pr_number, check_name |-> x.check_name,
     check_url |-> x.check_url, log_url |-> x.log_url]

\* C1: at every instant at most max_concurrent tasks are in flight, from the
\* first request of a task (retries and streaming included) to its outcome
AtMostNInFlight == Cardinality(InFlight) <= max_concurrent

\* C1 witness: the ceiling binds: a limit of two or more is used up by a
\* sending and a streaming task while another task waits in the queue
CeilingReached ==
    /\ max_concurrent >= 2
    /\ Cardinality(InFlight) = max_concurrent
    /\ QueuedTasks # {}
    /\ \E i, j \in InFlight : run[i].phase = "sending" /\ run[j].phase = "streaming"

\* C4: every task ends with exactly one outcome, Ok with a TaskState or Err
\* with an error: the outcomes collected carry the identities of the resolved
\* tasks, each as often as resolved tasks carry it, and once all tasks have
\* resolved there are as many outcomes as tasks
OneOutcomePerTask ==
    /\ \A k \in DOMAIN stream_results :
           LET result == stream_results[k].result
           IN  IF result.ok THEN DOMAIN result = {"ok", "state"}
               ELSE DOMAIN result = {"ok", "error"}
    /\ \A i \in DOMAIN tasks :
           Cardinality({k \in DOMAIN stream_results :
                            Identity(stream_results[k]) = Identity(tasks[i])})
           = Cardinality({j \in DOMAIN run :
                            run[j].phase = "done" /\ Identity(tasks[j]) = Identity(tasks[i])})
    /\ \A k \in DOMAIN stream_results :
           \E i \in DOMAIN tasks : Identity(tasks[i]) = Identity(stream_results[k])
    /\ Len(stream_results) = Cardinality({i \in DOMAIN run : run[i].phase = "done"})
    /\ pc = "returned" => Len(stream_results) = Len(tasks)

\* C4 witness: a call has returned after two tasks, one Ok and one Err
BothKindsCollected ==
    /\ pc = "returned"
    /\ Len(tasks) = 2
    /\ \E j, k \in DOMAIN stream_results :
           stream_results[j].result.ok /\ ~stream_results[k].result.ok

\* C5: error_lines never has more than 21 entries, and when it has 21 the
\* last one is the truncation marker
ErrorLinesCapped ==
    \A st \in LiveStates :
        /\ Len(st.error_lines) <= MAX_ERRORS + 1
        /\ Len(st.error_lines) = MAX_ERRORS + 1 => st.error_lines[MAX_ERRORS + 1] = TRUNCATED

\* C5 witness: a task holds 21 error lines while the body has lines left
TwentyOneErrorLines ==
    \E i \in DOMAIN run :
        /\ run[i].state # Nothing
        /\ Len(run[i].state.error_lines) = MAX_ERRORS + 1
        /\ run[i].pos < Len(BodyOf(i))

\* C6: line_count is the number of lines read (one more per line), never
\* exceeds 1000, and a task whose line_count reaches 1000 has stopped: no
\* line after the 1000th is read
LineCountCapped ==
    \A i \in DOMAIN run :
        run[i].state # Nothing =>
            /\ run[i].state.line_count = run[i].pos
            /\ run[i].pos <= MAX_LINES
            /\ run[i].pos = MAX_LINES => run[i].phase = "done"

\* C6 witness: a task stopped at line 1000 of a longer body without having
\* found an error line
StoppedAtLineCap ==
    \E i \in Succeeded :
        /\ run[i].state.line_count = MAX_LINES
        /\ run[i].state.error_count = 0
        /\ Len(BodyOf(i)) > MAX_LINES

\* C7: a task whose error_count has reached 20 has stopped at that line
\* with the marker appended and the outcome Ok; the body of 25 "panic:"
\* lines, read to its Ok, gives 21 error lines and line_count 20
StopsAtErrorCap ==
    \A i \in DOMAIN run :
        run[i].state # Nothing =>
            /\ run[i].state.error_count >= MAX_ERRORS =>
                   /\ i \in Succeeded
                   /\ run[i].state.error_count = MAX_ERRORS
                   /\ Len(run[i].state.error_lines) = MAX_ERRORS + 1
                   /\ run[i].state.error_lines[MAX_ERRORS + 1] = TRUNCATED
                   /\ \A k \in 1..MAX_ERRORS : run[i].state.error_lines[k] # TRUNCATED
                   /\ \E k \in DOMAIN stream_results :
                          stream_results[k].result = Ok(run[i].state)
            /\ (i \in Succeeded /\ run[i].body = BodyId(BodyOverErrors)) =>
                   /\ Len(run[i].state.error_lines) = MAX_ERRORS + 1
                   /\ run[i].state.line_count = MAX_ERRORS
                   /\ run[i].pos = MAX_ERRORS

\* C7 witness: the body of 25 "panic:" lines has been read to its Ok
PanicBodyRead ==
    \E i \in Succeeded : run[i].body = BodyId(BodyOverErrors) /\ pc = "returned"

\* the returned PrResult of the records numbered n
ResultOf(n) == CHOOSE r \in Range(ret) : r.pr.number = n

\* the FetchErrors of all returned PrResults
ReturnedErrors ==
    {<<k, e>> \in (DOMAIN ret) \X (1..Len(tasks)) : e \in DOMAIN ret[k].fetch_errors}

\* what the task would have produced had it run alone on its body
AloneLines(i) == StreamLoop(BodyOf(i), 0, TaskState_new(tasks[i].check_name)).error_lines

\* C2: when exactly one task ends in a non-success status and the others
\* succeed, the returned list holds exactly one FetchError, that of the
\* failed task, and under its check name in its PR's result every other task
\* finds the error lines it would have produced alone
FailureIsolated ==
    (/\ pc = "returned"
     /\ Cardinality(Failed) = 1
     /\ \A k \in DOMAIN stream_results :
            ~stream_results[k].result.ok => stream_results[k].result.error.kind = "status")
    => /\ Cardinality(ReturnedErrors) = 1
       /\ \A x \in ReturnedErrors : \A i \in Failed :
              Identity(ret[x[1]].fetch_errors[x[2]]) = Identity(tasks[i])
       /\ \A i \in Succeeded :
              AloneLines(i) # << >> =>
                  LET logs == ResultOf(tasks[i].pr_number).logs
                  IN  /\ tasks[i].check_name \in DOMAIN logs
                      /\ logs[tasks[i].check_name] = AloneLines(i)

\* C3: the returned list is as long as the input and its i-th PrResult
\* carries the i-th input record
OrderPreserved ==
    pc = "returned" =>
        /\ Len(ret) = Len(prs)
        /\ \A i \in DOMAIN prs : ret[i].pr = prs[i]

\* C8: when no check of any input record is failing with a URL that
\* resolves, no request is made and the call returns one PrResult per input
\* record, each with empty logs and no fetch errors
EmptyTaskListGivesEmptyResults ==
    (/\ pc = "returned"
     /\ \A i \in DOMAIN prs : CheckTasks(prs[i], 1) = << >>)
    => /\ tasks = << >>
       /\ run = << >>
       /\ Len(ret) = Len(prs)
       /\ \A i \in DOMAIN prs : ret[i] = PrResult_new(prs[i])

\* C9: after the call has returned, a task that succeeded with error lines
\* finds them under its check name in its PR's logs, a task that succeeded
\* without error lines has left no entry, and a task that failed has left
\* exactly one FetchError and no logs entry
ResultsRouted ==
    pc = "returned" =>
        \A i \in DOMAIN tasks :
            LET r == ResultOf(tasks[i].pr_number)
                name == tasks[i].check_name
                same == {j \in DOMAIN tasks : Identity(tasks[j]) = Identity(tasks[i])}
                errs == {k \in DOMAIN r.fetch_errors :
                             Identity(r.fetch_errors[k]) = Identity(tasks[i])}
            IN  /\ Cardinality(errs) = Cardinality(same \cap Failed)
                /\ (i \in Succeeded /\ run[i].state.error_lines # << >>) =>
                       /\ name \in DOMAIN r.logs
                       /\ r.logs[name] = run[i].state.error_lines
                /\ name \in DOMAIN r.logs =>
                       \E j \in Succeeded :
                           /\ tasks[j].pr_number = tasks[i].pr_number
                           /\ tasks[j].check_name = name
                           /\ run[j].state.error_lines # << >>

\* C10: no PrResult changes while a task is queued or in flight, and a logs
\* entry or FetchError, once written, stays as written
WrittenOnce ==
    [][ /\ (pc = "fetching" /\ pr_results' # pr_results) => AllDone
        /\ \A n \in DOMAIN pr_results :
               /\ n \in DOMAIN pr_results'
               /\ \A name \in DOMAIN pr_results[n].logs :
                      /\ name \in DOMAIN pr_results'[n].logs
                      /\ pr_results'[n].logs[name] = pr_results[n].logs[name]
               /\ \A k \in DOMAIN pr_results[n].fetch_errors :
                      /\ k \in DOMAIN pr_results'[n].fetch_errors
                      /\ pr_results'[n].fetch_errors[k] = pr_results[n].fetch_errors[k]
      ]_vars

\* the tasks whose read of the body failed after error lines had been found
ReadFailedWithLines == {i \in Failed : run[i].dropped # << >>}

\* C11: an outcome carries a TaskState or an error, never both; a task whose
\* read of the body fails after it found error lines ends in an Err outcome
\* (one, named "read"), and every logs entry is the error_lines of a task
\* that succeeded under that check name, so the lines the failed task had
\* found reach no logs entry
ReadFailureDiscardsLines ==
    /\ \A k \in DOMAIN stream_results :
           LET result == stream_results[k].result
           IN  /\ ~result.ok => "state" \notin DOMAIN result
               /\ result.ok => "error" \notin DOMAIN result
    /\ \A i \in ReadFailedWithLines :
           \E k \in DOMAIN stream_results :
               /\ Identity(stream_results[k]) = Identity(tasks[i])
               /\ stream_results[k].result = Err("read", 0)
    /\ \A n \in DOMAIN pr_results : \A name \in DOMAIN pr_results[n].logs :
           \E j \in Succeeded :
               /\ tasks[j].pr_number = n
               /\ tasks[j].check_name = name
               /\ pr_results[n].logs[name] = run[j].state.error_lines
    /\ pc = "returned" =>
           \A i \in ReadFailedWithLines :
               (\A j \in Succeeded : Identity(tasks[j]) # Identity(tasks[i])
                                       /\ tasks[j].check_name # tasks[i].check_name)
               => /\ tasks[i].check_name \notin DOMAIN ResultOf(tasks[i].pr_number).logs
                  /\ \E k \in DOMAIN ResultOf(tasks[i].pr_number).fetch_errors :
                         LET e == ResultOf(tasks[i].pr_number).fetch_errors[k]
                         IN  Identity(e) = Identity(tasks[i]) /\ e.error.kind = "read"

\* C11 witness: a call has returned in which one task succeeded with error
\* lines and another lost the error line it had found to a failed read
LinesDroppedOnReadFailure ==
    /\ pc = "returned"
    /\ \E i \in ReadFailedWithLines, j \in Succeeded :
           /\ tasks[i].check_name # tasks[j].check_name
           /\ run[j].state.error_lines # << >>
           /\ tasks[i].check_name \notin DOMAIN ResultOf(tasks[i].pr_number).logs

\* the outcome collected in this step, if task i resolves in it
Resolved(i) ==
    /\ run[i].phase \in {"sending", "streaming"}
    /\ run'[i].phase = "done"
    /\ Len(stream_results') = Len(stream_results) + 1

NewOutcome == stream_results'[Len(stream_results')]

\* C12 as stated: a non-success status is never followed by another request
\* of the task
StatusNeverRetried ==
    \A i \in DOMAIN run : run[i].last.kind # "status"

\* C12, amended: only a status the retry layer classes as transient (5xx, 408,
\* 429) is followed by another request, at most MAX_RETRIES times; any other
\* non-success status is surfaced at once, and a transient one once the
\* retries are used up; the Err names the status and comes with the log URL
StatusRetriedOnlyIfTransient ==
    /\ [](\A i \in DOMAIN run :
              run[i].last.kind = "status" =>
                  /\ TransientStatus(run[i].last.code)
                  /\ run[i].phase = "sending"
                  /\ run[i].requests \in 2..(MAX_RETRIES + 1))
    /\ [][\A i \in DOMAIN run :
              (Resolved(i) /\ ~NewOutcome.result.ok
                           /\ NewOutcome.result.error.kind = "status")
              => /\ NewOutcome.result.error.code \in StatusCodes
                 /\ NewOutcome.log_url = tasks[i].log_url
                 /\ TransientStatus(NewOutcome.result.error.code)
                        => run[i].requests = MAX_RETRIES + 1
                 /\ (~TransientStatus(NewOutcome.result.error.code)
                        /\ run[i].last.kind = "none")
                        => run[i].requests = 1]_vars

\* C12 witness: a call has returned with one task failed on a status that is
\* not transient and another on a transient one
BothStatusKindsSurfaced ==
    /\ pc = "returned"
    /\ \E j, k \in DOMAIN stream_results :
           /\ ~stream_results[j].result.ok
           /\ ~stream_results[k].result.ok
           /\ stream_results[j].result.error.kind = "status"
           /\ stream_results[k].result.error.kind = "status"
           /\ TransientStatus(stream_results[j].result.error.code)
           /\ ~TransientStatus(stream_results[k].result.error.code)

\* C13: a task is re-requested after a transport failure at most MAX_RETRIES
\* times, so it makes at most MAX_RETRIES + 1 requests; an attempt that
\* succeeds takes the task to streaming with a fresh TaskState; a task that
\* fails in transport resolves to one Err outcome and, once resolved,
\* never changes again
BoundedRetry ==
    /\ [](/\ \A i \in DOMAIN run :
                /\ run[i].requests <= MAX_RETRIES + 1
                /\ run[i].last.kind = "request" =>
                       run[i].phase = "sending" /\ run[i].requests \in 2..(MAX_RETRIES + 1)
           /\ Len(stream_results) = Cardinality({j \in DOMAIN run : run[j].phase = "done"}))
    /\ [][\A i \in DOMAIN run :
              /\ (run[i].phase = "sending" /\ run'[i].phase = "sending"
                     /\ run'[i] # run[i])
                  => /\ run[i].requests <= MAX_RETRIES
                     /\ run'[i].requests = run[i].requests + 1
                     /\ run'[i].last.kind \in {"request", "status"}
                     /\ stream_results' = stream_results
              /\ (run[i].phase = "sending" /\ run'[i].phase # "sending")
                  => \/ /\ run'[i].phase = "streaming"
                        /\ run'[i].requests = run[i].requests
                        /\ run'[i].state = TaskState_new(tasks[i].check_name)
                        /\ stream_results' = stream_results
                     \/ /\ Resolved(i)
                        /\ ~NewOutcome.result.ok
                        /\ NewOutcome.result.error.kind \in {"request", "status"}
                        /\ Identity(NewOutcome) = Identity(tasks[i])
              /\ run[i].phase = "done" => run'[i] = run[i]]_vars

\* C13 witness: one task has failed in transport and been collected while
\* another is sending its fourth request after three transport failures
FourthAttempt ==
    /\ \E k \in DOMAIN stream_results : stream_results[k].result = Err("request", 0)
    /\ \E i \in DOMAIN run :
           /\ run[i].phase = "sending"
           /\ run[i].requests = MAX_RETRIES + 1
           /\ run[i].last.kind = "request"

\* C14: under fair scheduling every queued task is started, every started
\* task resolves, and the call returns with an outcome for every task
Termination ==
    /\ <>(pc = "returned" /\ Len(stream_results) = Len(tasks))
    /\ \A i \in 1..MaxTotalChecks :
           /\ (i \in DOMAIN run /\ run[i].phase = "queued")
                  ~> (i \in DOMAIN run /\ run[i].phase = "sending")
           /\ (i \in DOMAIN run /\ run[i].phase \in {"sending", "streaming"})
                  ~> (i \in DOMAIN run /\ run[i].phase = "done")

\* C14 witness: under a limit of one, a call has returned whose first task
\* failed after all its retries and whose second task, queued behind it,
\* succeeded
ReturnedAfterFailure ==
    /\ pc = "returned"
    /\ max_concurrent = 1
    /\ Len(stream_results) = 2
    /\ stream_results[1].result = Err("status", 500)
    /\ stream_results[2].result.ok

\* C15: a failing check whose URL contains "#issuecomment" becomes no task,
\* and its name is in no logs and no FetchError of the returned results
IssueCommentNeverFetched ==
    /\ \A i \in DOMAIN tasks : ~StrContainsIssueComment(tasks[i].check_url)
    /\ \A k \in DOMAIN ret : \A c \in Range(ret[k].pr.checks) :
           (is_failed(c) /\ c.url.some /\ StrContainsIssueComment(c.url.val))
           => /\ c.name \notin DOMAIN ret[k].logs
              /\ \A e \in DOMAIN ret[k].fetch_errors :
                     ret[k].fetch_errors[e].check_name # c.name

\* the failing checks with a URL among the input records
FailingChecks ==
    {c \in UNION {Range(prs[k].checks) : k \in DOMAIN prs} : is_failed(c) /\ c.url.some}

\* scheme://host/view/gs/<bucket-path>, and the bucket path
IsViewGs(url) == Len(url.segs) >= 3 /\ url.segs[1] = "view" /\ url.segs[2] = "gs"

BucketPath(url) == SubSeq(url.segs, 3, Len(url.segs))

\* https://storage.googleapis.com/<bucket-path>/build-log.txt
StorageLog(url) == Url("https", STORAGE_HOST, Append(BucketPath(url), "build-log.txt"), "")

\* the failing check with this view link has become a task for its storage log
ResolvedToStorage(c) ==
    pc # "called" =>
        /\ ci_url_to_log_url(c.url.val) = Some(StorageLog(c.url.val))
        /\ \E i \in DOMAIN tasks :
               /\ tasks[i].check_name = c.name
               /\ tasks[i].check_url = c.url.val
               /\ tasks[i].log_url = StorageLog(c.url.val)

\* C16: a view link https://<prow host>/view/gs/<bucket-path>, on the host
\* prow.ci.openshift.org or on the host "prow.ci.example", whatever its bucket
\* path, resolves to https://storage.googleapis.com/<bucket-path>/build-log.txt
\* and its check becomes a task for that URL
ProwViewResolves ==
    \A c \in FailingChecks :
        (c.url.val.scheme = "https"
           /\ c.url.val.host \in {PROW_HOST, "prow.ci.example"}
           /\ IsViewGs(c.url.val))
        => ResolvedToStorage(c)

\* the TaskState task i would hold had it read alone the lines it has read
AloneState(i) ==
    StreamLoop(SubSeq(BodyOf(i), 1, run[i].pos), 0, TaskState_new(tasks[i].check_name))

\* C17: a step changes the future of at most one task, so a line consumed by
\* one task leaves every other TaskState as it was, and every TaskState, in
\* progress or handed over, is the one its task would hold had it read the
\* same lines alone
TaskStateIsolated ==
    /\ [](\A i \in DOMAIN run :
              run[i].state # Nothing =>
                  /\ run[i].state = AloneState(i)
                  /\ run[i].phase = "done" =>
                         \E k \in DOMAIN stream_results :
                             /\ Identity(stream_results[k]) = Identity(tasks[i])
                             /\ stream_results[k].result = Ok(AloneState(i)))
    /\ [][\A i, j \in DOMAIN run :
              (i # j /\ run'[i] # run[i]) => run'[j] = run[j]]_vars

\* C17 witness: two tasks are streaming at once, each past its first line and
\* each holding an error line, from different bodies
TwoTasksStreaming ==
    \E i, j \in DOMAIN run :
        /\ i # j
        /\ run[i].phase = "streaming" /\ run[j].phase = "streaming"
        /\ run[i].body # run[j].body
        /\ run[i].state.error_lines # << >>
        /\ run[j].state.error_lines # << >>

\* the checks that are to become tasks, by record and position: failing,
\* with a URL, and the URL resolves
Eligible ==
    {x \in (DOMAIN prs) \X (1..MaxTotalChecks) :
         /\ x[2] \in DOMAIN prs[x[1]].checks
         /\ LET c == prs[x[1]].checks[x[2]]
            IN  is_failed(c) /\ c.url.some /\ ci_url_to_log_url(c.url.val).some}

\* the task of an eligible check
TaskOf(x) ==
    LET c == prs[x[1]].checks[x[2]]
    IN  [pr_number |-> prs[x[1]].number, check_name |-> c.name, check_url |-> c.url.val,
         log_url |-> ci_url_to_log_url(c.url.val).val]

\* C18: once the task list is built it holds one task for every eligible
\* check of every input record and nothing else, and only the names of
\* eligible checks reach logs and fetch errors
OneTaskPerEligibleCheck ==
    pc # "called" =>
        /\ Len(tasks) = Cardinality(Eligible)
        /\ \A x \in Eligible : \E i \in DOMAIN tasks : tasks[i] = TaskOf(x)
        /\ \A i \in DOMAIN tasks : \E x \in Eligible : tasks[i] = TaskOf(x)
        /\ \A n \in DOMAIN pr_results :
               /\ \A name \in DOMAIN pr_results[n].logs :
                      \E x \in Eligible : TaskOf(x).pr_number = n /\ TaskOf(x).check_name = name
               /\ \A k \in DOMAIN pr_results[n].fetch_errors :
                      \E x \in Eligible : Identity(TaskOf(x)) = Identity(pr_results[n].fetch_errors[k])

\* the position in the task list of the task a collected outcome belongs to
TaskIndex(r) == CHOOSE i \in DOMAIN tasks : Identity(tasks[i]) = Identity(r)

\* C19 as stated, in its part on completions: under a limit of two or more
\* any permutation of completions is reachable, that is, whichever tasks are
\* unresolved, each of them can be the next to complete: those not in flight
\* fit into the free slots of the buffer without waiting for a completion
CompletionUnconstrained ==
    (pc = "fetching" /\ max_concurrent >= 2)
    => Cardinality(QueuedTasks) + Cardinality(InFlight) <= max_concurrent

\* C19, amended: a task starts only while fewer than max_concurrent tasks are
\* in flight, and it is the first queued task of the list, so the tasks
\* started are always a prefix of the list; while a task is queued and a
\* slot is free the next task can start, and the call does not move on;
\* completions may come in another order than starts, within a window: the
\* p-th task to complete is among the first p + max_concurrent - 1 of the list
WorkConservingStartOrder ==
    /\ [](/\ \A i, j \in DOMAIN run :
                ((i < j /\ run[j].phase # "queued") => run[i].phase # "queued")
           /\ (QueuedTasks # {} => (pc = "fetching" /\ routed = 0))
           /\ ((QueuedTasks # {} /\ Cardinality(InFlight) < max_concurrent)
                  => ENABLED StartTask)
           /\ \A p \in DOMAIN stream_results :
                  TaskIndex(stream_results[p]) <= p + max_concurrent - 1)
    /\ [][\A i \in DOMAIN run :
              (run[i].phase = "queued" /\ run'[i].phase # "queued")
              => /\ Cardinality(InFlight) < max_concurrent
                 /\ i = Min(QueuedTasks)
                 /\ run'[i].phase = "sending"
                 /\ run'[i].requests = 1]_vars

\* C19 witness: under a limit of two, three tasks have completed in the
\* order second, third, first
CompletedOutOfOrder ==
    /\ pc = "returned"
    /\ max_concurrent = 2
    /\ Len(stream_results) = 3
    /\ TaskIndex(stream_results[1]) = 2
    /\ TaskIndex(stream_results[2]) = 3
    /\ TaskIndex(stream_results[3]) = 1

\* C20: a TaskState exists only once a success response has arrived, it is
\* created in that step, fresh, and never a second time; a streaming task
\* moves one line forward at a time or resolves, and sends no request: its
\* count of requests stands from the first line on, and a failed read
\* resolves the task for good
NoReplay ==
    /\ [](\A i \in DOMAIN run :
              /\ run[i].phase \in {"queued", "sending"} =>
                     run[i].state = Nothing /\ run[i].pos = 0
              /\ run[i].phase = "streaming" =>
                     /\ run[i].state # Nothing
                     /\ run[i].state.line_count = run[i].pos
                     /\ run[i].requests \in 1..(MAX_RETRIES + 1))
    /\ [][\A i \in DOMAIN run :
              /\ (run[i].state = Nothing /\ run'[i].state # Nothing)
                  => /\ run[i].phase = "sending"
                     /\ run'[i].phase = "streaming"
                     /\ run'[i].state = TaskState_new(tasks[i].check_name)
                     /\ run'[i].pos = 0
              /\ (run[i].phase = "streaming" /\ run'[i] # run[i])
                  => \/ /\ run'[i].phase = "streaming"
                        /\ run'[i].requests = run[i].requests
                        /\ run'[i].body = run[i].body
                        /\ run'[i].pos = run[i].pos + 1
                        /\ run'[i].state
                              = processor(BodyOf(i)[run[i].pos + 1], run[i].state).state
                     \/ /\ Resolved(i)
                        /\ Identity(NewOutcome) = Identity(tasks[i])
              /\ run[i].phase = "done" => run'[i] = run[i]]_vars

\* C20 witness: a task that needed all its retries is reading its body, two
\* lines in, while another task has failed in a read after finding an error
\* line
RetriedThenStreaming ==
    /\ \E i \in DOMAIN run :
           /\ run[i].phase = "streaming"
           /\ run[i].requests = MAX_RETRIES + 1
           /\ run[i].pos >= 2
    /\ ReadFailedWithLines # {}

\* the lines among the first n of a body that are to be recorded: not blank
\* once trimmed, at most 500 characters long, matched by a pattern
Recorded(body, n) ==
    SelectSeq(SubSeq(body, 1, n),
              LAMBDA l : /\ LineInfo(l).trimmed # ""
                         /\ LineInfo(l).chars <= MAX_LINE_LEN
                         /\ is_error_line_with_pattern(l) # None)

\* error_lines without a final truncation marker
WithoutMarker(lines) ==
    IF lines # << >> /\ lines[Len(lines)] = TRUNCATED
    THEN SubSeq(lines, 1, Len(lines) - 1) ELSE lines

\* C21: the error lines of an Ok outcome, the final marker left out, are the
\* trimmed texts of the consumed lines that are not blank, at most 500
\* characters long and matched by a pattern, in stream order, none
\* duplicated or dropped;
\* the body "INFO starting / ERROR: build failed / INFO done" gives
\* <<"ERROR: build failed">>
ErrorLinesAreRecordedLines ==
    \A i \in Succeeded :
        LET recorded == Recorded(BodyOf(i), run[i].pos)
            lines == WithoutMarker(run[i].state.error_lines)
        IN  /\ lines = [k \in DOMAIN recorded |-> LineInfo(recorded[k]).trimmed]
            /\ \E k \in DOMAIN stream_results :
                   stream_results[k].result = Ok(run[i].state)
            /\ run[i].body = BodyId(BodyExample) =>
                   run[i].state.error_lines = <<"ERROR: build failed">>

\* C22: the processor adds one to line_count for every line it is given; a
\* line that is blank once trimmed or longer than 500 characters is not
\* classified (the error lines, the error count and the pattern counts stay
\* as they are) and after it the task goes on exactly when line_count < 1000;
\* a line of exactly 500 characters is classified: when a pattern matches
\* it, it is recorded
SkippedLinesCounted ==
    [][\A i \in DOMAIN run :
           (/\ run[i].phase = "streaming"
            /\ run'[i].state # Nothing
            /\ run'[i].pos = run[i].pos + 1) =>
               LET line == BodyOf(i)[run[i].pos + 1]
                   before == run[i].state
                   after == run'[i].state
               IN  /\ after.line_count = before.line_count + 1
                   /\ (LineInfo(line).trimmed = "" \/ LineInfo(line).chars > MAX_LINE_LEN) =>
                          /\ after.error_lines = before.error_lines
                          /\ after.error_count = before.error_count
                          /\ after.pattern_matches = before.pattern_matches
                          /\ (run'[i].phase = "streaming") <=> (after.line_count < MAX_LINES)
                          /\ (run'[i].phase = "done") <=> (after.line_count >= MAX_LINES)
                   /\ (LineInfo(line).chars = MAX_LINE_LEN
                       /\ is_error_line_with_pattern(line) # None) =>
                          /\ after.error_count = before.error_count + 1
                          /\ after.error_lines =
                                 Append(before.error_lines, LineInfo(line).trimmed)]_vars

\* the positions in PATTERN_NAMES of a name
PositionsOf(name) == {p \in DOMAIN PATTERN_NAMES : PATTERN_NAMES[p] = name}

\* the pattern names whose count differs between two pattern_matches maps
ChangedCounts(before, after) ==
    {k \in (DOMAIN before) \cup (DOMAIN after) :
         k \notin DOMAIN before \/ k \notin DOMAIN after \/ before[k] # after[k]}

\* C23: for every line the classifier reports at most one pattern: None
\* exactly when no pattern of the table matches the line, and otherwise the
\* name of the matching pattern declared first; the same line gives the same
\* result every time it is classified.  Seen in the counts of the task that
\* classifies the line: one count goes up by one, that of the first match
FirstMatchReported ==
    /\ \A i \in {j \in DOMAIN run : run[j].state # Nothing} : \A k \in 1..run[i].pos :
           LET line == BodyOf(i)[k]
               matches == LineInfo(line).matches
               reported == is_error_line_with_pattern(line)
           IN  /\ (reported = None) <=> (matches = {})
               /\ reported # None =>
                      /\ Cardinality(PositionsOf(reported)) = 1
                      /\ \A p \in PositionsOf(reported) :
                             p \in matches /\ \A q \in matches : p <= q
    /\ [][\A i \in DOMAIN run :
              (/\ run[i].phase = "streaming"
               /\ run'[i].state # Nothing
               /\ run'[i].pos = run[i].pos + 1
               /\ LineInfo(BodyOf(i)[run[i].pos + 1]).trimmed # ""
               /\ LineInfo(BodyOf(i)[run[i].pos + 1]).len <= MAX_LINE_LEN) =>
                  LET matches == LineInfo(BodyOf(i)[run[i].pos + 1]).matches
                      before == run[i].state.pattern_matches
                      after == run'[i].state.pattern_matches
                      changed == ChangedCounts(before, after)
                  IN  /\ (matches = {}) <=> (changed = {})
                      /\ Cardinality(changed) <= 1
                      /\ \A name \in changed :
                             /\ after[name] = (IF name \in DOMAIN before
                                               THEN before[name] ELSE 0) + 1
                             /\ \A p \in PositionsOf(name) :
                                    p \in matches /\ \A q \in matches : p <= q]_vars

\* C23 witness: a task has classified a line that two patterns match
\* ("ERROR: build failed": error-keyword and build-failed) and lines that none
\* matches, and has counted the first of the two
TwoPatternsMatched ==
    \E i \in Succeeded :
        /\ run[i].body = BodyId(BodyExample)
        /\ run[i].pos = Len(BodyExample)
        /\ LineInfo(BodyExample[2]).matches = {1, 20}
        /\ run[i].state.pattern_matches = MapInsert(EmptyMap, "error-keyword", 1)

\* the number of the first rule of the resolver whose condition the URL meets
FirstRule(url) ==
    CHOOSE r \in 1..5 :
        LET holds == [k \in 1..5 |->
                         CASE k = 1 -> url.host = PROW_HOST /\ PathContains(url, "view", "gs")
                           [] k = 2 -> url.host = GITHUB_HOST
                                       /\ PathContains(url, "actions", "runs")
                           [] k = 3 -> StrContainsRaw(url) \/ url.host = STORAGE_HOST
                           [] k = 4 -> StrContainsIssueComment(url)
                           [] k = 5 -> TRUE]
        IN  holds[r] /\ \A k \in 1..(r - 1) : ~holds[k]

\* the tasks made of a failing check
TasksOfCheck(c) ==
    {i \in DOMAIN tasks : tasks[i].check_name = c.name /\ tasks[i].check_url = c.url.val}

LogUrlsValidated ==
    pc # "called" =>
        /\ \A i \in DOMAIN tasks : tasks[i].log_url.scheme \in {"http", "https"}
        /\ \A c \in FailingChecks :
               LET url == c.url.val
               IN  /\ FirstRule(url) = 1 =>
                          \A i \in TasksOfCheck(c) :
                              /\ tasks[i].log_url.scheme = "https"
                              /\ tasks[i].log_url.host = STORAGE_HOST
                   /\ FirstRule(url) = 3 =>
                          /\ \A i \in TasksOfCheck(c) : tasks[i].log_url = url
                          /\ (TasksOfCheck(c) # {}) <=> (url.scheme \in {"http", "https"})

\* C26: the limit the fetcher runs with is a positive integer: 20 when
\* AUTOPRAT_MAX_CONCURRENT_HTTP_STREAMS is absent or does not parse, and
\* otherwise the value configured, whatever it is
ConcurrencyLimitPositive ==
    pc # "called" =>
        /\ max_concurrent \in {ConfiguredConcurrency(setting) : setting \in Settings}
        /\ max_concurrent \in Nat \ {0}

\* two sequences hold the same elements, each as often
SameMultiset(a, b) ==
    /\ Len(a) = Len(b)
    /\ \A x \in Range(a) \cup Range(b) :
           Cardinality({k \in DOMAIN a : a[k] = x}) = Cardinality({k \in DOMAIN b : b[k] = x})

\* what the call returns when the tasks, with the outcomes they had, complete
\* in the order `order` (a permutation of the positions of stream_results)
ReturnedFor(order) ==
    Reassemble(prs, RouteAll(InitPrResults(prs),
                             [k \in DOMAIN order |-> stream_results[order[k]]]))

\* C27: what the call returns (per record the logs map, and the fetch errors
\* as a multiset) is the same in whatever order the tasks complete, their
\* outcomes being the same; with a limit that lets every task run at once
\* every order of completion is possible
DeterministicUnderInterleaving ==
    (pc = "returned" /\ Len(tasks) <= max_concurrent) =>
        \A order \in Orders(DOMAIN stream_results) :
            LET other == ReturnedFor(order)
            IN  /\ Len(other) = Len(ret)
                /\ \A k \in DOMAIN ret :
                       /\ other[k].pr = ret[k].pr
                       /\ other[k].logs = ret[k].logs
                       /\ SameMultiset(other[k].fetch_errors, ret[k].fetch_errors)

\* the record of a PrResult has a failing check of this name, and of this
\* name and URL
OwnFailingCheck(pr_result, name) ==
    \E c \in Range(pr_result.pr.checks) : is_failed(c) /\ c.name = name

OwnFailingCheckAt(pr_result, name, url) ==
    \E c \in Range(pr_result.pr.checks) : is_failed(c) /\ c.name = name /\ c.url = Some(url)

\* what a PrResult holds comes from failing checks of its own record
NoLeak(pr_result) ==
    /\ \A name \in DOMAIN pr_result.logs : OwnFailingCheck(pr_result, name)
    /\ \A e \in DOMAIN pr_result.fetch_errors :
           /\ OwnFailingCheckAt(pr_result, pr_result.fetch_errors[e].check_name,
                                pr_result.fetch_errors[e].check_url)
           /\ pr_result.fetch_errors[e].pr_number = pr_result.pr.number

\* C28: every key of the logs of a PrResult is the name of a failing check of
\* the record of that PrResult, and every FetchError in it has the name and
\* the URL of a failing check of that record; while the outcomes are routed
\* and in what is returned, also when two input records share a PR number
NoCrossPrLeakage ==
    /\ \A n \in DOMAIN pr_results : NoLeak(pr_results[n])
    /\ \A k \in DOMAIN ret : NoLeak(ret[k])

\* C28 witness: the call has returned for two records of the same PR number
\* that carry different checks, each with a task of its own had it been the
\* only record; the returned result holds a log and no fetch error, or a
\* fetch error
SharedNumberReturned ==
    /\ pc = "returned"
    /\ Len(prs) = 2
    /\ prs[1].number = prs[2].number
    /\ \A k \in {1, 2} : CheckTasks(prs[k], 1) # << >>
    /\ Range(prs[1].checks) \cap Range(prs[2].checks) = {}
    /\ \E k \in DOMAIN ret : ret[k].logs # EmptyMap \/ ret[k].fetch_errors # << >>

\* the sum of the counts of a pattern_matches map
RECURSIVE SumOfCounts(_)
SumOfCounts(m) ==
    IF DOMAIN m = {} THEN 0
    ELSE LET k == CHOOSE x \in DOMAIN m : TRUE
         IN  m[k] + SumOfCounts([x \in (DOMAIN m) \ {k} |-> m[x]])

\* C29: in every TaskState error_count <= 20 and error_count <= line_count
\* <= 1000, the pattern counts add up to error_count, and error_lines has
\* error_count entries while error_count < 20 and 21 entries once
\* error_count = 20
CountersConsistent ==
    \A st \in LiveStates :
        /\ st.error_count <= MAX_ERRORS
        /\ st.error_count <= st.line_count
        /\ st.line_count <= MAX_LINES
        /\ SumOfCounts(st.pattern_matches) = st.error_count
        /\ \A name \in DOMAIN st.pattern_matches :
               st.pattern_matches[name] >= 1 /\ name \in Range(PATTERN_NAMES)
        /\ st.error_count < MAX_ERRORS => Len(st.error_lines) = st.error_count
        /\ st.error_count = MAX_ERRORS => Len(st.error_lines) = MAX_ERRORS + 1

\* C29 witness: a TaskState at both caps, its 20th error line found on
\* line 1000
BothCapsReached ==
    \E st \in LiveStates :
        /\ st.error_count = MAX_ERRORS
        /\ st.line_count = MAX_LINES
        /\ Len(st.error_lines) = MAX_ERRORS + 1
        /\ SumOfCounts(st.pattern_matches) = MAX_ERRORS

\* how often the truncation marker stands in a list of error lines
Markers(lines) == Cardinality({k \in DOMAIN lines : lines[k] = TRUNCATED})

\* C30: the marker is appended exactly when the 20th error line is recorded:
\* a TaskState has the marker, once and last, if error_count is 20 and not
\* at all if it is 19 or less; the step that brings the marker is the step
\* that records the 20th error line; and the body of exactly 20 matching
\* lines, read to its end, gives 21 error lines ending in the marker
MarkerWithTwentiethError ==
    /\ [](\A st \in LiveStates :
              /\ Markers(st.error_lines) <= 1
              /\ st.error_count <= MAX_ERRORS - 1 => Markers(st.error_lines) = 0
              /\ st.error_count = MAX_ERRORS =>
                     /\ Markers(st.error_lines) = 1
                     /\ st.error_lines[Len(st.error_lines)] = TRUNCATED)
    /\ [](\A i \in Succeeded :
              run[i].body = BodyId(BodyExactErrors) =>
                  /\ run[i].pos = Len(BodyExactErrors)
                  /\ Len(run[i].state.error_lines) = MAX_ERRORS + 1
                  /\ run[i].state.error_lines[MAX_ERRORS + 1] = TRUNCATED)
    /\ [][\A i \in DOMAIN run :
              (run[i].phase = "streaming" /\ run'[i].state # Nothing) =>
                  ((Markers(run'[i].state.error_lines) = Markers(run[i].state.error_lines) + 1)
                   <=> (/\ run[i].state.error_count = MAX_ERRORS - 1
                        /\ run'[i].state.error_count = MAX_ERRORS))]_vars

\* C30 witness: the body of exactly 20 matching lines has been read to its
\* last line and the call has returned 21 error lines for it
ExactBodyTruncated ==
    /\ pc = "returned"
    /\ \E i \in Succeeded :
           /\ run[i].body = BodyId(BodyExactErrors)
           /\ run[i].pos = Len(BodyOf(i))
           /\ \E k \in DOMAIN ret :
                  /\ tasks[i].check_name \in DOMAIN ret[k].logs
                  /\ Len(ret[k].logs[tasks[i].check_name]) = MAX_ERRORS + 1

====
